---- MODULE Spec2Model ----
(***************************************************************************)
(* Shopping-cart logic of the two Redis demo scripts:                      *)
(*   src/redis_streamlit_app.py  add_to_cart, get_cart, clear_cart,         *)
(*                               checkout, _update_cart_ttl, cart editor    *)
(*   src/main.py                 add_item_to_cart, remove_item_from_cart,   *)
(*                               get_cart_contents                          *)
(* The Redis server is the shared state.  Every Redis command is one       *)
(* atomic step; a handler that issues several commands is a sequence of    *)
(* steps of one client, and other clients (other sessions of the app, or   *)
(* the console script) may take steps in between.                          *)
(* The app is a Streamlit script: a button press or a table edit runs the  *)
(* script from the top, and every run ends in the cart section (lines      *)
(* 264-334), which reads the cart and applies the diff of the table to it. *)
(* A handler that calls st.rerun() starts that run over.  The reads whose   *)
(* result is only displayed (get_numbers at the top of a run, xrevrange at  *)
(* its end) change nothing and are not steps of the cart handlers.          *)
(***************************************************************************)
EXTENDS Integers, Sequences, FiniteSets, TLC

VARIABLES
    cart,       \* Redis hashes  cart:<uid>      : field (SKU) -> value (string)
    cart_ttl,   \* Redis strings cart_ttl:<uid>  : marker with its expiry time
    orders,     \* Redis stream  orders          : sequence of field maps
    now,        \* wall clock of the store, in seconds
    pc,         \* per client: the command its handler issues next
    loc,        \* per client: the handler's arguments and local variables
    numbers,    \* Redis sorted set "numbers"     : member (string) -> score
    sequential_numbers_list   \* Redis list "sequential_numbers_list" of strings

vars == <<cart, cart_ttl, orders, now, pc, loc, numbers, sequential_numbers_list>>
store == <<cart, cart_ttl, orders>>
number_keys == <<numbers, sequential_numbers_list>>

----------------------------------------------------------------------------
(* Bounds of the model *)
MaxQty == 2        \* largest quantity a field of a cart is allowed to reach
MaxOrders == 2     \* largest length of the orders stream
MaxTicks == 2      \* number of clock advances
TickSec == 900     \* seconds per clock advance
NumSeq == 3        \* the values 1..NumSeq stand for the 1..100 of the number demos
RandSpan == 3      \* the random values are drawn from NumSeq+1 .. NumSeq+RandSpan
RandK == 2         \* size of one random sample (100 in the program)

(* Program constants *)
CART_HASH_PREFIX == "cart:"
CART_TTL_PREFIX == "cart_ttl:"
CART_TTL_SEC == 30 * 60
ORDER_STREAM == "orders"

Users == {"u1", "u2"}
SKUs == {"A", "B", "C"}
Procs == {"c1", "c2"}

(* sku.strip(), line 301-302, on the SKUs of the model: " A" is the one      *)
(* that carries whitespace                                                  *)
strip(sku) == IF sku = " A" THEN "A" ELSE sku

get_cart_key(uid) == CART_HASH_PREFIX \o uid
get_cart_ttl_key(uid) == CART_TTL_PREFIX \o uid

CartKeys == {get_cart_key(u) : u \in Users}
TtlKeys == {get_cart_ttl_key(u) : u \in Users}

----------------------------------------------------------------------------
(* Values.  Redis stores hash values and stream fields as strings; the     *)
(* client formats integers on the way in and the scripts parse them with   *)
(* int() on the way out.                                                    *)
IntRange == (0 - MaxQty - 1)..(MaxQty + 1 + NumSeq + RandSpan)
str(n) == ToString(n)
int(s) == CHOOSE n \in IntRange : ToString(n) = s

None == "None"
EmptyHash == [f \in {} |-> ""]
EmptyDict == [f \in {} |-> 0]
NoMarker == [exists |-> FALSE, value |-> "", expire_at |-> 0]

----------------------------------------------------------------------------
(* Redis commands, as functions of the current store *)
HGETALL(key) == cart[key]
HGET(key, field) == IF field \in DOMAIN cart[key] THEN cart[key][field] ELSE None
HLEN(key) == Cardinality(DOMAIN cart[key])

HashSet(h, field, value) ==
    [g \in DOMAIN h \cup {field} |-> IF g = field THEN value ELSE h[g]]
HashDel(h, field) == [g \in DOMAIN h \ {field} |-> h[g]]
HashIncr(h, field, n) ==
    HashSet(h, field, str((IF field \in DOMAIN h THEN int(h[field]) ELSE 0) + n))

HSET(key, field, n) == cart' = [cart EXCEPT ![key] = HashSet(@, field, str(n))]
HDEL(key, field) == cart' = [cart EXCEPT ![key] = HashDel(@, field)]
HINCRBY(key, field, n) == cart' = [cart EXCEPT ![key] = HashIncr(@, field, n)]
SETEX(key, seconds, value) ==
    cart_ttl' = [cart_ttl EXCEPT ![key] =
                    [exists |-> TRUE, value |-> value, expire_at |-> now + seconds]]
DELETE(key) == cart_ttl' = [cart_ttl EXCEPT ![key] = NoMarker]
(* XADD with MAXLEN 1: the stream keeps its newest entry only *)
XADD_maxlen_1(stream, fields) == orders' = <<fields>>
XADD(stream, fields) == orders' = Append(orders, fields)

(* Quantity a field would hold after HINCRBY, to keep the model finite *)
AfterIncr(key, field, n) ==
    (IF field \in DOMAIN cart[key] THEN int(cart[key][field]) ELSE 0) + n

RECURSIVE SumQuantity(_, _)
SumQuantity(rows, S) ==
    IF S = {} THEN 0
    ELSE LET k == CHOOSE x \in S : TRUE
         IN  rows[k] + SumQuantity(rows, S \ {k})

(* Largest quantity the cart editor could write for the SKU after HINCRBY:  *)
(* the positive quantities of the fields that are this SKU once stripped    *)
MergedAfterIncr(key, field, n) ==
    LET same == {k \in DOMAIN cart[key] \ {field} : strip(k) = strip(field)}
        q == [k \in same |-> IF int(cart[key][k]) > 0 THEN int(cart[key][k]) ELSE 0]
        v == AfterIncr(key, field, n)
    IN  (IF v > 0 THEN v ELSE 0) + SumQuantity(q, same)

----------------------------------------------------------------------------
(* Clients *)
Mid == {"ttl_hlen", "ttl_write", "checkout_xadd", "checkout_clear",
        "editor_execute", "remove_write", "seq_lpush", "seq_lrange"}

IdleLoc ==
    [op |-> "", uid |-> "", sku |-> "", qty |-> 0,
     edited |-> EmptyDict,        \* edited_cart_dict
     cart |-> EmptyDict,          \* result of get_cart
     order_details |-> EmptyHash,
     to_set |-> EmptyDict,        \* queued HSET commands of the pipeline
     to_del |-> {},               \* queued HDEL commands of the pipeline
     cur |-> None,                \* current_quantity_str
     n |-> 0,                     \* result of HLEN
     i |-> 0,                     \* loop variable of the LPUSH loop
     numbers |-> <<>>,            \* list a number demo retrieved
     ret |-> "",
     \* history of the call, not read by the handlers
     pre_cart |-> EmptyHash, pre_orders |-> <<>>,
     pre_list |-> <<>>,
     appended |-> FALSE, cleared |-> FALSE, overlap |-> {}]

(* The record of a call that starts now *)
Call(p, op, uid, sku, qty) ==
    [IdleLoc EXCEPT !.op = op, !.uid = uid, !.sku = sku, !.qty = qty,
                    !.pre_cart = cart[get_cart_key(uid)],
                    !.pre_orders = orders,
                    !.overlap = {q \in Procs \ {p} : pc[q] \in Mid}]

(* The record of a call of a number demo that starts now; uid is the user  *)
(* id of the session (st.session_state.cart_user_id_input) for the app's    *)
(* buttons and "" for the console script                                    *)
NumberCall(p, op, uid) ==
    [IdleLoc EXCEPT !.op = op, !.uid = uid,
                    !.pre_list = sequential_numbers_list,
                    !.overlap = {q \in Procs \ {p} : pc[q] \in Mid}]

(* A store that holds no key of the two scripts yet *)
Init ==
    /\ cart = [k \in CartKeys |-> EmptyHash]
    /\ cart_ttl = [k \in TtlKeys |-> NoMarker]
    /\ orders = <<>>
    /\ now = 0
    /\ pc = [p \in Procs |-> "idle"]
    /\ loc = [p \in Procs |-> IdleLoc]
    /\ numbers = [m \in {} |-> 0]
    /\ sequential_numbers_list = <<>>

(* The calls of the app: each runs inside a script run, which goes on to    *)
(* the cart section once the call has returned                              *)
ScriptRunOps == {"add_to_cart", "clear_cart", "checkout", "editor",
                 "insert_sequential", "insert_random", "clear_numbers", "get_numbers"}

(* The call has returned and the cart section of its script run (or of the  *)
(* run st.rerun() starts) is still to come.  A cart section that found      *)
(* nothing to change ends the run.                                          *)
RerunPending(p) ==
    /\ pc[p] = "done"
    /\ loc[p].op \in ScriptRunOps
    /\ loc[p].ret # "unchanged"

(* loc once client p has started the call recorded in call *)
Started(p, call) ==
    [q \in Procs |-> IF q = p THEN call ELSE [loc[q] EXCEPT !.overlap = @ \ {p}]]

----------------------------------------------------------------------------
(* src/redis_streamlit_app.py *)

get_cart(uid) ==
    LET raw_cart == HGETALL(get_cart_key(uid))
    IN  [k \in DOMAIN raw_cart |-> int(raw_cart[k])]

(* cart display that refreshes the marker of the cart it shows *)
cart_display_touch(p, uid) ==
    /\ pc[p] = "idle"
    /\ loc' = [loc EXCEPT ![p] =
                 [Call(p, "get_cart", uid, "", 0) EXCEPT !.cart = get_cart(uid), !.ret = "ok"]]
    /\ pc' = [pc EXCEPT ![p] = "done"]
    /\ IF HLEN(get_cart_key(uid)) > 0
          THEN SETEX(get_cart_ttl_key(uid), CART_TTL_SEC, "alive")
          ELSE UNCHANGED cart_ttl
    /\ UNCHANGED <<cart, orders, now, number_keys>>

(* _update_cart_ttl called on its own *)
_update_cart_ttl_call(p, uid) ==
    /\ pc[p] = "idle"
    /\ loc' = [loc EXCEPT ![p] = Call(p, "_update_cart_ttl", uid, "", 0)]
    /\ pc' = [pc EXCEPT ![p] = "ttl_hlen"]
    /\ UNCHANGED <<cart, cart_ttl, orders, now, number_keys>>

(* _update_cart_ttl, first command: HLEN *)
_update_cart_ttl(p) ==
    /\ pc[p] = "ttl_hlen"
    /\ loc' = [loc EXCEPT ![p].n = HLEN(get_cart_key(loc[p].uid))]
    /\ pc' = [pc EXCEPT ![p] = "ttl_write"]
    /\ UNCHANGED <<cart, cart_ttl, orders, now, number_keys>>

(* helper that sets a missing marker but does not refresh an existing one *)
_update_cart_ttl_write_no_refresh(p) ==
    /\ pc[p] = "ttl_write"
    /\ IF loc[p].n > 0
          THEN IF cart_ttl[get_cart_ttl_key(loc[p].uid)].exists
                  THEN UNCHANGED cart_ttl
                  ELSE SETEX(get_cart_ttl_key(loc[p].uid), CART_TTL_SEC, "alive")
          ELSE DELETE(get_cart_ttl_key(loc[p].uid))
    /\ loc' = [loc EXCEPT ![p].ret = "ok"]
    /\ pc' = [pc EXCEPT ![p] = "done"]
    /\ UNCHANGED <<cart, orders, now, number_keys>>

(* helper that sets the marker and never deletes it *)
_update_cart_ttl_write_keep(p) ==
    /\ pc[p] = "ttl_write"
    /\ IF loc[p].n > 0
          THEN SETEX(get_cart_ttl_key(loc[p].uid), CART_TTL_SEC, "alive")
          ELSE UNCHANGED cart_ttl
    /\ loc' = [loc EXCEPT ![p].ret = "ok"]
    /\ pc' = [pc EXCEPT ![p] = "done"]
    /\ UNCHANGED <<cart, orders, now, number_keys>>

(* _update_cart_ttl, second command: SETEX or DELETE *)
_update_cart_ttl_write(p) ==
    /\ pc[p] = "ttl_write"
    /\ IF loc[p].n > 0
          THEN SETEX(get_cart_ttl_key(loc[p].uid), CART_TTL_SEC, "alive")
          ELSE DELETE(get_cart_ttl_key(loc[p].uid))
    /\ loc' = [loc EXCEPT ![p].ret = "ok"]
    /\ pc' = [pc EXCEPT ![p] = "done"]
    /\ UNCHANGED <<cart, orders, now, number_keys>>

add_to_cart(p, uid, sku, qty) ==
    /\ pc[p] = "idle"
    /\ IF qty <= 0 \/ sku = ""
          THEN /\ loc' = [loc EXCEPT ![p] =
                            [Call(p, "add_to_cart", uid, sku, qty) EXCEPT !.ret = "rejected"]]
               /\ pc' = [pc EXCEPT ![p] = "done"]
               /\ UNCHANGED <<cart, cart_ttl, orders, now, number_keys>>
          ELSE /\ AfterIncr(get_cart_key(uid), sku, qty) <= MaxQty
               /\ MergedAfterIncr(get_cart_key(uid), sku, qty) <= MaxQty
               /\ HINCRBY(get_cart_key(uid), sku, qty)
               /\ loc' = [loc EXCEPT ![p] = Call(p, "add_to_cart", uid, sku, qty)]
               /\ pc' = [pc EXCEPT ![p] = "ttl_hlen"]
               /\ UNCHANGED <<cart_ttl, orders, now, number_keys>>

(* clear that deletes the cart hash and leaves the marker *)
clear_cart_hash_only(uid) ==
    /\ cart' = [cart EXCEPT ![get_cart_key(uid)] = EmptyHash]
    /\ UNCHANGED cart_ttl

(* clear that deletes the keys of every user *)
clear_cart_all_users(uid) ==
    /\ cart' = [k \in CartKeys |-> EmptyHash]
    /\ cart_ttl' = [k \in TtlKeys |-> NoMarker]

(* rdb.delete(cart_key, ttl_key): one DEL command with two keys *)
clear_cart(uid) ==
    /\ cart' = [cart EXCEPT ![get_cart_key(uid)] = EmptyHash]
    /\ DELETE(get_cart_ttl_key(uid))

clear_cart_button(p, uid) ==
    /\ pc[p] = "idle"
    /\ clear_cart(uid)
    /\ loc' = [loc EXCEPT ![p] =
                 [Call(p, "clear_cart", uid, "", 0) EXCEPT !.cleared = TRUE, !.ret = "ok"]]
    /\ pc' = [pc EXCEPT ![p] = "done"]
    /\ UNCHANGED <<orders, now, number_keys>>

order_fields(uid, c) ==
    [f \in {"user_id", "timestamp"} \cup {"item_" \o k : k \in DOMAIN c} |->
        IF f = "user_id" THEN uid
        ELSE IF f = "timestamp" THEN str(now)
        ELSE str(c[CHOOSE k \in DOMAIN c : f = "item_" \o k])]

(* checkout without the test for an empty cart *)
checkout_untested(p, uid) ==
    /\ pc[p] = "idle"
    /\ Len(orders) + Cardinality({q \in Procs : pc[q] = "checkout_xadd"}) < MaxOrders
    /\ LET c == get_cart(uid)
       IN  /\ loc' = [loc EXCEPT ![p] =
                        [Call(p, "checkout", uid, "", 0) EXCEPT
                            !.cart = c, !.order_details = order_fields(uid, c)]]
           /\ pc' = [pc EXCEPT ![p] = "checkout_xadd"]
    /\ UNCHANGED <<cart, cart_ttl, orders, now, number_keys>>

(* checkout, lines 156-163: get_cart, the emptiness test, order_details *)
checkout(p, uid) ==
    /\ pc[p] = "idle"
    /\ Len(orders) + Cardinality({q \in Procs : pc[q] = "checkout_xadd"}) < MaxOrders
    /\ LET c == get_cart(uid)
       IN  IF DOMAIN c = {}
              THEN /\ loc' = [loc EXCEPT ![p] =
                                [Call(p, "checkout", uid, "", 0) EXCEPT !.ret = "False"]]
                   /\ pc' = [pc EXCEPT ![p] = "done"]
              ELSE /\ loc' = [loc EXCEPT ![p] =
                                [Call(p, "checkout", uid, "", 0) EXCEPT
                                    !.cart = c, !.order_details = order_fields(uid, c)]]
                   /\ pc' = [pc EXCEPT ![p] = "checkout_xadd"]
    /\ UNCHANGED <<cart, cart_ttl, orders, now, number_keys>>

(* checkout, line 165 *)
checkout_xadd(p) ==
    /\ pc[p] = "checkout_xadd"
    /\ XADD(ORDER_STREAM, loc[p].order_details)
    /\ loc' = [loc EXCEPT ![p].appended = TRUE]
    /\ pc' = [pc EXCEPT ![p] = "checkout_clear"]
    /\ UNCHANGED <<cart, cart_ttl, now, number_keys>>

(* checkout that deletes the marker but leaves the cart hash *)
checkout_clear_marker_only(p) ==
    /\ pc[p] = "checkout_clear"
    /\ DELETE(get_cart_ttl_key(loc[p].uid))
    /\ loc' = [loc EXCEPT ![p].cleared = TRUE, ![p].ret = "True"]
    /\ pc' = [pc EXCEPT ![p] = "done"]
    /\ UNCHANGED <<cart, orders, now, number_keys>>

(* checkout, lines 166-168 *)
checkout_clear(p) ==
    /\ pc[p] = "checkout_clear"
    /\ clear_cart(loc[p].uid)
    /\ loc' = [loc EXCEPT ![p].cleared = TRUE, ![p].ret = "True"]
    /\ pc' = [pc EXCEPT ![p] = "done"]
    /\ UNCHANGED <<orders, now, number_keys>>

(* diff that updates the SKUs the cart holds and drops the new ones *)
editor_hset_known_only(current, edited) ==
    LET S == {sku \in DOMAIN edited :
                /\ edited[sku] > 0
                /\ sku \in DOMAIN current /\ edited[sku] # current[sku]}
    IN  [sku \in S |-> edited[sku]]

(* The cart editor, lines 309-328: the commands queued on the pipeline *)
editor_hset(current, edited) ==
    LET S == {sku \in DOMAIN edited :
                /\ edited[sku] > 0
                /\ (sku \notin DOMAIN current \/ edited[sku] # current[sku])}
    IN  [sku \in S |-> edited[sku]]

(* the diff without its second loop: rows that were removed are kept *)
editor_hdel_zero_only(current, edited) ==
    {sku \in DOMAIN edited : edited[sku] <= 0 /\ sku \in DOMAIN current}

editor_hdel(current, edited) ==
    {sku \in DOMAIN edited : edited[sku] <= 0 /\ sku \in DOMAIN current}
        \cup {sku \in DOMAIN current : sku \notin DOMAIN edited}

(* editor that runs its pipeline and the marker helper on every pass *)
editor_always_applies(p, uid, edited) ==
    /\ pc[p] = "idle"
    /\ LET current_cart_redis == get_cart(uid)
       IN  loc' = [loc EXCEPT ![p] =
                     [Call(p, "editor", uid, "", 0) EXCEPT
                        !.edited = edited, !.cart = current_cart_redis,
                        !.to_set = editor_hset(current_cart_redis, edited),
                        !.to_del = editor_hdel(current_cart_redis, edited)]]
    /\ pc' = [pc EXCEPT ![p] = "editor_execute"]
    /\ UNCHANGED <<cart, cart_ttl, orders, now, number_keys>>

(* edited_cart_dict, lines 295-307, of the rows SKU -> Quantity of the      *)
(* table: a row with a blank SKU is dropped, and the rows whose SKUs are    *)
(* equal once stripped are added up                                         *)
edited_cart_dict(rows) ==
    LET clean == {strip(k) : k \in DOMAIN rows} \ {""}
    IN  [sku_clean \in clean |->
            SumQuantity(rows, {k \in DOMAIN rows : strip(k) = sku_clean})]

(* The cart section of a script run, lines 264-334: get_cart, then the diff *)
(* of edited_cart_dict against it                                           *)
cart_editor(p, uid, edited) ==
    /\ LET current_cart_redis == get_cart(uid)
           hs == editor_hset(current_cart_redis, edited)
           hd == editor_hdel(current_cart_redis, edited)
           made_changes_in_editor == DOMAIN hs # {} \/ hd # {}
           call == [Call(p, "editor", uid, "", 0) EXCEPT
                        !.edited = edited, !.cart = current_cart_redis,
                        !.to_set = hs, !.to_del = hd]
       IN  IF made_changes_in_editor
              THEN /\ loc' = Started(p, call)
                   /\ pc' = [pc EXCEPT ![p] = "editor_execute"]
              ELSE /\ loc' = Started(p, [call EXCEPT !.ret = "unchanged"])
                   /\ pc' = [pc EXCEPT ![p] = "done"]
    /\ UNCHANGED <<cart, cart_ttl, orders, now, number_keys>>

(* A script run started by an edit of the table: edited is the              *)
(* edited_cart_dict of the table as the user left it                        *)
editor(p, uid, edited) ==
    /\ pc[p] = "idle"
    /\ cart_editor(p, uid, edited)

(* The cart section after a call of the app has returned: st.rerun() (lines *)
(* 243, 251, 259, 334) starts the script over, and a handler that does not  *)
(* rerun (a refused press, a checkout of an empty cart, a number button)    *)
(* lets its run go on to line 264.  The table shows the rows of the cart it *)
(* reads, and st.data_editor returns them as they are.                      *)
st_rerun(p) ==
    /\ RerunPending(p)
    /\ cart_editor(p, loc[p].uid, edited_cart_dict(get_cart(loc[p].uid)))

(* A script run with no button pressed and no edit (a page load): the cart  *)
(* section alone.  On a cart whose rows all pass the diff it is one         *)
(* get_cart.                                                                *)
cart_display(p, uid) ==
    /\ pc[p] = "idle"
    /\ LET current_cart_redis == get_cart(uid)
           edited == edited_cart_dict(current_cart_redis)
       IN  IF \/ DOMAIN editor_hset(current_cart_redis, edited) # {}
              \/ editor_hdel(current_cart_redis, edited) # {}
              THEN cart_editor(p, uid, edited)
              ELSE /\ loc' = [loc EXCEPT ![p] =
                                [Call(p, "get_cart", uid, "", 0) EXCEPT
                                    !.cart = current_cart_redis, !.ret = "ok"]]
                   /\ pc' = [pc EXCEPT ![p] = "done"]
                   /\ UNCHANGED <<cart, cart_ttl, orders, now, number_keys>>

(* pipe.execute(): the queued commands run as one MULTI/EXEC transaction *)
pipe_execute(h, to_set, to_del) ==
    [f \in (DOMAIN h \cup DOMAIN to_set) \ to_del |->
        IF f \in DOMAIN to_set THEN str(to_set[f]) ELSE h[f]]

(* pipeline that sends its queued commands one at a time, no MULTI/EXEC *)
editor_execute_unbatched(p) ==
    /\ pc[p] = "editor_execute"
    /\ \E f \in DOMAIN loc[p].to_set \cup loc[p].to_del :
          LET one_set == [g \in {f} \cap DOMAIN loc[p].to_set |-> loc[p].to_set[g]]
              one_del == {f} \cap loc[p].to_del
              rest_set == [g \in DOMAIN loc[p].to_set \ {f} |-> loc[p].to_set[g]]
              rest_del == loc[p].to_del \ {f}
          IN  /\ cart' = [cart EXCEPT ![get_cart_key(loc[p].uid)] =
                              pipe_execute(@, one_set, one_del)]
              /\ loc' = [loc EXCEPT ![p].to_set = rest_set, ![p].to_del = rest_del]
              /\ pc' = [pc EXCEPT ![p] =
                            IF DOMAIN rest_set = {} /\ rest_del = {}
                               THEN "ttl_hlen" ELSE "editor_execute"]
    /\ UNCHANGED <<cart_ttl, orders, now, number_keys>>

editor_execute(p) ==
    /\ pc[p] = "editor_execute"
    /\ cart' = [cart EXCEPT ![get_cart_key(loc[p].uid)] =
                    pipe_execute(@, loc[p].to_set, loc[p].to_del)]
    /\ pc' = [pc EXCEPT ![p] = "ttl_hlen"]
    /\ UNCHANGED <<cart_ttl, orders, now, loc, number_keys>>

(* The number demo, lines 105-121 and 199-201.  A sorted set keeps one      *)
(* score per member; ZADD adds a member or updates its score.               *)
NUM_KEY == "numbers"
EmptyZset == [m \in {} |-> 0]

ZADD(z, mapping) ==
    [m \in DOMAIN z \cup DOMAIN mapping |->
        IF m \in DOMAIN mapping THEN mapping[m] ELSE z[m]]

(* Members by ascending / descending score.  Redis orders members of equal  *)
(* score by their bytes; the demo gives every member its own value as score *)
RECURSIVE ZRANGE(_)
ZRANGE(z) ==
    IF DOMAIN z = {} THEN <<>>
    ELSE LET m == CHOOSE x \in DOMAIN z : \A o \in DOMAIN z : z[x] <= z[o]
         IN  <<m>> \o ZRANGE([o \in DOMAIN z \ {m} |-> z[o]])

RECURSIVE ZREVRANGE(_)
ZREVRANGE(z) ==
    IF DOMAIN z = {} THEN <<>>
    ELSE LET m == CHOOSE x \in DOMAIN z : \A o \in DOMAIN z : z[x] >= z[o]
         IN  <<m>> \o ZREVRANGE([o \in DOMAIN z \ {m} |-> z[o]])

(* one pipeline of ZADD {str(n): n}, run by pipe.execute() *)
zadd_values(z, values) ==
    LET S == {str(v) : v \in values}
    IN  ZADD(z, [m \in S |-> int(m)])

insert_sequential(p, uid) ==
    /\ pc[p] = "idle"
    /\ numbers' = zadd_values(numbers, 1..NumSeq)
    /\ loc' = [loc EXCEPT ![p] =
                 [NumberCall(p, "insert_sequential", uid) EXCEPT !.ret = "ok"]]
    /\ pc' = [pc EXCEPT ![p] = "done"]
    /\ UNCHANGED <<cart, cart_ttl, orders, now, sequential_numbers_list>>

(* random.sample(range(101, 10_000), 100): distinct values above 1..100 *)
insert_random(p, uid, rand_vals) ==
    /\ pc[p] = "idle"
    /\ numbers' = zadd_values(numbers, rand_vals)
    /\ loc' = [loc EXCEPT ![p] =
                 [NumberCall(p, "insert_random", uid) EXCEPT !.ret = "ok"]]
    /\ pc' = [pc EXCEPT ![p] = "done"]
    /\ UNCHANGED <<cart, cart_ttl, orders, now, sequential_numbers_list>>

(* the button "Clear Number ZSET": rdb.delete(NUM_KEY) *)
clear_numbers(p, uid) ==
    /\ pc[p] = "idle"
    /\ numbers' = EmptyZset
    /\ loc' = [loc EXCEPT ![p] =
                 [NumberCall(p, "clear_numbers", uid) EXCEPT !.ret = "ok"]]
    /\ pc' = [pc EXCEPT ![p] = "done"]
    /\ UNCHANGED <<cart, cart_ttl, orders, now, sequential_numbers_list>>

(* get_numbers that reads the set in ascending order (ZRANGE) *)
get_numbers_ascending(p, uid) ==
    /\ pc[p] = "idle"
    /\ LET members == ZRANGE(numbers)
       IN  loc' = [loc EXCEPT ![p] =
                     [NumberCall(p, "get_numbers", uid) EXCEPT
                        !.numbers = [k \in 1..Len(members) |-> int(members[k])],
                        !.ret = "ok"]]
    /\ pc' = [pc EXCEPT ![p] = "done"]
    /\ UNCHANGED <<cart, cart_ttl, orders, now, number_keys>>

get_numbers(p, uid) ==
    /\ pc[p] = "idle"
    /\ LET members == ZREVRANGE(numbers)
       IN  loc' = [loc EXCEPT ![p] =
                     [NumberCall(p, "get_numbers", uid) EXCEPT
                        !.numbers = [k \in 1..Len(members) |-> int(members[k])],
                        !.ret = "ok"]]
    /\ pc' = [pc EXCEPT ![p] = "done"]
    /\ UNCHANGED <<cart, cart_ttl, orders, now, number_keys>>

----------------------------------------------------------------------------
(* src/main.py *)

(* part1_add_retrieve_sequential without its r.delete(key_name) *)
part1_add_retrieve_sequential_no_delete(p) ==
    /\ pc[p] = "idle"
    /\ loc' = [loc EXCEPT ![p] =
                 [NumberCall(p, "part1_add_retrieve_sequential", "") EXCEPT !.i = 1]]
    /\ pc' = [pc EXCEPT ![p] = "seq_lpush"]
    /\ UNCHANGED <<cart, cart_ttl, orders, now, number_keys>>

(* part1_add_retrieve_sequential, line 43: r.delete(key_name) *)
part1_add_retrieve_sequential(p) ==
    /\ pc[p] = "idle"
    /\ sequential_numbers_list' = <<>>
    /\ loc' = [loc EXCEPT ![p] =
                 [NumberCall(p, "part1_add_retrieve_sequential", "") EXCEPT !.i = 1]]
    /\ pc' = [pc EXCEPT ![p] = "seq_lpush"]
    /\ UNCHANGED <<cart, cart_ttl, orders, now, numbers>>

(* lines 47-54: one r.lpush(key_name, i) of the loop *)
part1_lpush(p) ==
    /\ pc[p] = "seq_lpush"
    /\ sequential_numbers_list' = <<str(loc[p].i)>> \o sequential_numbers_list
    /\ IF loc[p].i < NumSeq
          THEN /\ loc' = [loc EXCEPT ![p].i = @ + 1]
               /\ UNCHANGED pc
          ELSE /\ pc' = [pc EXCEPT ![p] = "seq_lrange"]
               /\ UNCHANGED loc
    /\ UNCHANGED <<cart, cart_ttl, orders, now, numbers>>

(* line 60: numbers = r.lrange(key_name, 0, -1) *)
part1_lrange(p) ==
    /\ pc[p] = "seq_lrange"
    /\ loc' = [loc EXCEPT ![p].numbers = sequential_numbers_list, ![p].ret = "ok"]
    /\ pc' = [pc EXCEPT ![p] = "done"]
    /\ UNCHANGED <<cart, cart_ttl, orders, now, number_keys>>

(* add that overwrites the quantity (HSET) instead of incrementing it *)
add_item_to_cart_hset(p, user_id, sku, quantity) ==
    /\ pc[p] = "idle"
    /\ HSET(get_cart_key(user_id), sku, quantity)
    /\ loc' = [loc EXCEPT ![p] =
                 [Call(p, "add_item_to_cart", user_id, sku, quantity) EXCEPT !.ret = "ok"]]
    /\ pc' = [pc EXCEPT ![p] = "done"]
    /\ UNCHANGED <<cart_ttl, orders, now, number_keys>>

add_item_to_cart(p, user_id, sku, quantity) ==
    /\ pc[p] = "idle"
    /\ AfterIncr(get_cart_key(user_id), sku, quantity) <= MaxQty
    /\ AfterIncr(get_cart_key(user_id), sku, quantity) >= 0 - MaxQty
    /\ MergedAfterIncr(get_cart_key(user_id), sku, quantity) <= MaxQty
    /\ HINCRBY(get_cart_key(user_id), sku, quantity)
    /\ loc' = [loc EXCEPT ![p] =
                 [Call(p, "add_item_to_cart", user_id, sku, quantity) EXCEPT !.ret = "ok"]]
    /\ pc' = [pc EXCEPT ![p] = "done"]
    /\ UNCHANGED <<cart_ttl, orders, now, number_keys>>

(* clear_user_and_cart_data, lines 178-184: one DEL of user:<id> and        *)
(* cart:<id>.  The user hash is no state of the cart; the marker            *)
(* cart_ttl:<id> is not among the keys deleted.                             *)
clear_user_and_cart_data(p, user_id) ==
    /\ pc[p] = "idle"
    /\ cart' = [cart EXCEPT ![get_cart_key(user_id)] = EmptyHash]
    /\ loc' = [loc EXCEPT ![p] =
                 [Call(p, "clear_user_and_cart_data", user_id, "", 0) EXCEPT !.ret = "ok"]]
    /\ pc' = [pc EXCEPT ![p] = "done"]
    /\ UNCHANGED <<cart_ttl, orders, now, number_keys>>

get_cart_contents(p, user_id) ==
    /\ pc[p] = "idle"
    /\ LET cart_data_str_values == HGETALL(get_cart_key(user_id))
       IN  loc' = [loc EXCEPT ![p] =
                     [Call(p, "get_cart_contents", user_id, "", 0) EXCEPT
                        !.cart = [sku \in DOMAIN cart_data_str_values |->
                                    int(cart_data_str_values[sku])],
                        !.ret = "ok"]]
    /\ pc' = [pc EXCEPT ![p] = "done"]
    /\ UNCHANGED <<cart, cart_ttl, orders, now, number_keys>>

(* remove that reads an absent field as quantity 0 instead of returning *)
remove_item_from_cart_no_none(p, user_id, sku, quantity_to_remove) ==
    /\ pc[p] = "idle"
    /\ LET current_quantity_str == HGET(get_cart_key(user_id), sku)
       IN  loc' = [loc EXCEPT ![p] =
                     [Call(p, "remove_item_from_cart", user_id, sku, quantity_to_remove)
                        EXCEPT !.cur = IF current_quantity_str = None
                                          THEN "0" ELSE current_quantity_str]]
    /\ pc' = [pc EXCEPT ![p] = "remove_write"]
    /\ UNCHANGED <<cart, cart_ttl, orders, now, number_keys>>

(* remove_item_from_cart, lines 141-146: HGET and the test for None *)
remove_item_from_cart(p, user_id, sku, quantity_to_remove) ==
    /\ pc[p] = "idle"
    /\ LET current_quantity_str == HGET(get_cart_key(user_id), sku)
           call == [Call(p, "remove_item_from_cart", user_id, sku, quantity_to_remove)
                        EXCEPT !.cur = current_quantity_str]
       IN  IF current_quantity_str = None
              THEN /\ loc' = [loc EXCEPT ![p] = [call EXCEPT !.ret = "not_found"]]
                   /\ pc' = [pc EXCEPT ![p] = "done"]
              ELSE /\ loc' = [loc EXCEPT ![p] = call]
                   /\ pc' = [pc EXCEPT ![p] = "remove_write"]
    /\ UNCHANGED <<cart, cart_ttl, orders, now, number_keys>>

(* remove that deletes only when more than the quantity is removed *)
remove_item_write_strict(p) ==
    /\ pc[p] = "remove_write"
    /\ LET current_quantity == int(loc[p].cur)
       IN  IF loc[p].qty > current_quantity
              THEN /\ HDEL(get_cart_key(loc[p].uid), loc[p].sku)
                   /\ loc' = [loc EXCEPT ![p].ret = "removed"]
              ELSE /\ HINCRBY(get_cart_key(loc[p].uid), loc[p].sku, 0 - loc[p].qty)
                   /\ loc' = [loc EXCEPT ![p].ret = "decremented"]
    /\ pc' = [pc EXCEPT ![p] = "done"]
    /\ UNCHANGED <<cart_ttl, orders, now, number_keys>>

(* remove_item_from_cart, lines 148-156: HDEL or HINCRBY by the negative *)
remove_item_write(p) ==
    /\ pc[p] = "remove_write"
    /\ LET current_quantity == int(loc[p].cur)
       IN  IF loc[p].qty >= current_quantity
              THEN /\ HDEL(get_cart_key(loc[p].uid), loc[p].sku)
                   /\ loc' = [loc EXCEPT ![p].ret = "removed"]
              ELSE /\ HINCRBY(get_cart_key(loc[p].uid), loc[p].sku, 0 - loc[p].qty)
                   /\ loc' = [loc EXCEPT ![p].ret = "decremented"]
    /\ pc' = [pc EXCEPT ![p] = "done"]
    /\ UNCHANGED <<cart_ttl, orders, now, number_keys>>

----------------------------------------------------------------------------
(* Environment *)

(* A store command fails (connection lost, timeout): the exception leaves  *)
(* the handler, which issues no further command.                           *)
StoreUnavailable(p) ==
    /\ pc[p] \in Mid \/ RerunPending(p)
    /\ pc' = [pc EXCEPT ![p] = "failed"]
    /\ loc' = [loc EXCEPT ![p].ret = "error"]
    /\ UNCHANGED <<cart, cart_ttl, orders, now, number_keys>>

(* The call has returned and its script run, if it is in one, has ended;    *)
(* the client is ready for the next call                                    *)
Return(p) ==
    /\ pc[p] \in {"done", "failed"}
    /\ ~RerunPending(p)
    /\ pc' = [pc EXCEPT ![p] = "idle"]
    /\ loc' = [q \in Procs |->
                 IF q = p THEN IdleLoc ELSE [loc[q] EXCEPT !.overlap = @ \ {p}]]
    /\ UNCHANGED <<cart, cart_ttl, orders, now, number_keys>>

(* Time passes; Redis removes the string keys whose expiry time has come *)
Tick ==
    /\ now < MaxTicks * TickSec
    /\ now' = now + TickSec
    /\ cart_ttl' = [k \in TtlKeys |->
                      IF cart_ttl[k].exists /\ cart_ttl[k].expire_at <= now + TickSec
                         THEN NoMarker ELSE cart_ttl[k]]
    /\ UNCHANGED <<cart, orders, pc, loc, number_keys>>

----------------------------------------------------------------------------
(* Inputs *)
AddQtys == 1..MaxQty                 \* quantities of an add that is accepted
FormQtys == 0..MaxQty                \* quantities the app's add form is given
RemoveQtys == 1..(MaxQty + 1)       \* up to more than any stored quantity
EditQtys == (0 - 1)..MaxQty
ScriptQtys == (0 - 1)..MaxQty        \* quantities the console script's add is given
EditedDicts(S) == UNION {[D -> EditQtys] : D \in SUBSET S}

(* The rest of a script run once the call of its button has returned: the  *)
(* cart section and, when its diff is not empty, the batch and the marker   *)
RerunStep(p) ==
    \/ st_rerun(p)
    \/ editor_execute(p)
    \/ _update_cart_ttl(p)
    \/ _update_cart_ttl_write(p)

AddStep(p, U, S) ==
    \/ \E uid \in U, sku \in S \cup {""}, qty \in FormQtys : add_to_cart(p, uid, sku, qty)
    \/ RerunStep(p)

EditStep(p, U, S) ==
    \/ \E uid \in U : clear_cart_button(p, uid)
    \/ \E uid \in U, edited \in EditedDicts(S) : editor(p, uid, edited)
    \/ RerunStep(p)

(* The cart section that follows a checkout reads the cart the checkout has *)
(* emptied or found empty                                                   *)
CheckoutStep(p, U) ==
    \/ \E uid \in U : checkout(p, uid)
    \/ checkout_xadd(p)
    \/ checkout_clear(p)
    \/ st_rerun(p)

ReadStep(p, U) ==
    \/ \E uid \in U : cart_display(p, uid)
    \/ \E uid \in U : get_cart_contents(p, uid)

MainStep(p, U, S) ==
    \/ \E uid \in U : clear_user_and_cart_data(p, uid)
    \/ \E uid \in U, sku \in S, qty \in AddQtys : add_item_to_cart(p, uid, sku, qty)
    \/ \E uid \in U, sku \in S, n \in RemoveQtys : remove_item_from_cart(p, uid, sku, n)
    \/ remove_item_write(p)

RandVals == (NumSeq + 1)..(NumSeq + RandSpan)
RandomSamples == {S \in SUBSET RandVals : Cardinality(S) = RandK}

NumberStep(p, U) ==
    \/ \E uid \in U : insert_sequential(p, uid)
    \/ \E uid \in U, rand_vals \in RandomSamples : insert_random(p, uid, rand_vals)
    \/ \E uid \in U : clear_numbers(p, uid)
    \/ \E uid \in U : get_numbers(p, uid)
    \/ st_rerun(p)

ListStep(p) ==
    \/ part1_add_retrieve_sequential(p)
    \/ part1_lpush(p)
    \/ part1_lrange(p)

(* Two sessions of the app on one cart: any interleaving of their commands, *)
(* any store failure                                                        *)
Next ==
    \E p \in Procs :
        \/ AddStep(p, {"u1"}, {"A"})
        \/ EditStep(p, {"u1"}, {"A"})
        \/ CheckoutStep(p, {"u1"})
        \/ StoreUnavailable(p)
        \/ Return(p)

Spec == Init /\ [][Next]_vars

(* Two runs of the console script's cart functions on one cart *)
ScriptNext ==
    \E p \in Procs :
        \/ MainStep(p, {"u1"}, {"A", "B"})
        \/ StoreUnavailable(p)
        \/ Return(p)

ScriptSpec == Init /\ [][ScriptNext]_vars

(* One caller changing a cart with the functions of both scripts, one call  *)
(* at a time, no failure                                                    *)
SerialNext ==
    \/ AddStep("c1", {"u1"}, SKUs)
    \/ EditStep("c1", {"u1"}, SKUs)
    \/ MainStep("c1", {"u1"}, SKUs)
    \/ Return("c1")

SerialSpec == Init /\ [][SerialNext]_vars

(* One session of the app filling carts and checking out, one call at a     *)
(* time, no failure.  The app alone writes the carts, so every quantity is  *)
(* positive and the cart section of a run finds nothing to change.          *)
CheckoutNext ==
    \/ \E sku \in {"A", "B", ""}, qty \in FormQtys : add_to_cart("c1", "u1", sku, qty)
    \/ _update_cart_ttl("c1")
    \/ _update_cart_ttl_write("c1")
    \/ CheckoutStep("c1", {"u1"})
    \/ Return("c1")

CheckoutSpec == Init /\ [][CheckoutNext]_vars

(* One session of the app, one call at a time, while time passes *)
TimedNext ==
    \/ AddStep("c1", {"u1"}, {"A"})
    \/ EditStep("c1", {"u1"}, {"A"})
    \/ CheckoutStep("c1", {"u1"})
    \/ ReadStep("c1", {"u1"})
    \/ Return("c1")
    \/ Tick

TimedSpec == Init /\ [][TimedNext]_vars

(* One session editing a cart, any store failure, while a second client     *)
(* reads the cart at any moment                                             *)
ReplaceNext ==
    \/ AddStep("c1", {"u1"}, {"A", "B"})
    \/ EditStep("c1", {"u1"}, {"A", "B"})
    \/ StoreUnavailable("c1")
    \/ ReadStep("c2", {"u1"})
    \/ \E p \in Procs : Return(p)

ReplaceSpec == Init /\ [][ReplaceNext]_vars

(* One caller adding with the functions of both scripts, every quantity and *)
(* SKU the functions accept as arguments                                    *)
AnyAddNext ==
    \/ AddStep("c1", {"u1"}, {"A", "B"})
    \/ \E sku \in {"A", " A", ""}, qty \in ScriptQtys : add_item_to_cart("c1", "u1", sku, qty)
    \/ Return("c1")

AnyAddSpec == Init /\ [][AnyAddNext]_vars

(* One client adding, removing, editing, clearing and checking out on the   *)
(* cart of one user while a session of the app adds to the cart of another  *)
UsersNext ==
    \/ MainStep("c1", {"u1"}, {"A"})
    \/ EditStep("c1", {"u1"}, {"A"})
    \/ CheckoutStep("c1", {"u1"})
    \/ \E qty \in AddQtys : add_to_cart("c2", "u2", "A", qty)
    \/ _update_cart_ttl("c2")
    \/ _update_cart_ttl_write("c2")
    \/ st_rerun("c2")
    \/ \E p \in Procs : Return(p)

UsersSpec == Init /\ [][UsersNext]_vars

(* One caller of both scripts' cart functions and of the marker helper on   *)
(* its own, while time passes                                               *)
HelperNext ==
    \/ AddStep("c1", {"u1"}, {"A"})
    \/ EditStep("c1", {"u1"}, {"A"})
    \/ CheckoutStep("c1", {"u1"})
    \/ MainStep("c1", {"u1"}, {"A"})
    \/ _update_cart_ttl_call("c1", "u1")
    \/ Return("c1")
    \/ Tick

HelperSpec == Init /\ [][HelperNext]_vars

(* One session editing a cart while a second session adds to it: any       *)
(* interleaving of their commands                                           *)
EditAddNext ==
    \/ \E edited \in EditedDicts({"A", "B"}) : editor("c1", "u1", edited)
    \/ editor_execute("c1")
    \/ \E sku \in {"A", "B"}, qty \in AddQtys : add_to_cart("c2", "u1", sku, qty)
    \/ \E p \in Procs : _update_cart_ttl(p)
    \/ \E p \in Procs : _update_cart_ttl_write(p)
    \/ \E p \in Procs : st_rerun(p)
    \/ \E p \in Procs : Return(p)

EditAddSpec == Init /\ [][EditAddNext]_vars

(* Carts filled by the console script's add, with every quantity it        *)
(* accepts, and checked out in the app, one call at a time                  *)
ScriptCheckoutNext ==
    \/ \E sku \in {"A", "B"}, qty \in ScriptQtys : add_item_to_cart("c1", "u1", sku, qty)
    \/ CheckoutStep("c1", {"u1"})
    \/ Return("c1")

ScriptCheckoutSpec == Init /\ [][ScriptCheckoutNext]_vars

(* One session of the app adding to a cart of two SKUs, one call at a time, *)
(* while time passes; the user presses Checkout while the stream is still   *)
(* empty, so the adds that follow find one order in it.  The app alone      *)
(* writes the carts, so the cart section of a run finds nothing to change.  *)
TimedAddNext ==
    \/ \E sku \in {"A", "B"}, qty \in AddQtys : add_to_cart("c1", "u1", sku, qty)
    \/ _update_cart_ttl("c1")
    \/ _update_cart_ttl_write("c1")
    \/ orders = <<>> /\ checkout("c1", "u1")
    \/ checkout_xadd("c1")
    \/ checkout_clear("c1")
    \/ st_rerun("c1")
    \/ Return("c1")
    \/ Tick

TimedAddSpec == Init /\ [][TimedAddNext]_vars

(* The number demos of both scripts, one call at a time, any store failure  *)
NumbersNext ==
    \/ NumberStep("c1", {"u1"})
    \/ ListStep("c1")
    \/ StoreUnavailable("c1")
    \/ Return("c1")

NumbersSpec == Init /\ [][NumbersNext]_vars

----------------------------------------------------------------------------
(* Properties *)

Ended(p) == pc[p] \in {"done", "failed"}
Decode(h) == [k \in DOMAIN h |-> int(h[k])]
Positive(m) == [k \in {s \in DOMAIN m : m[s] > 0} |-> m[k]]
MarkerExists(uid) == cart_ttl[get_cart_ttl_key(uid)].exists
CartNonEmpty(uid) == DOMAIN cart[get_cart_key(uid)] # {}
Overlapped(p, q) == q \in loc[p].overlap \/ p \in loc[q].overlap

(* The item snapshot (SKU -> quantity) an order record carries *)
Snapshot(rec) ==
    [k \in {s \in SKUs : ("item_" \o s) \in DOMAIN rec} |-> int(rec["item_" \o k])]

(* C1: a checkout that has ended (returned, or stopped by a store failure)  *)
(* has never appended its order record while its clear never ran and the    *)
(* cart is still non-empty, nor cleared the cart without having appended.   *)
C1_CheckoutAllOrNothing ==
    \A p \in Procs :
        (loc[p].op = "checkout" /\ Ended(p)) =>
            /\ ~(loc[p].appended /\ ~loc[p].cleared /\ CartNonEmpty(loc[p].uid))
            /\ ~(loc[p].cleared /\ ~loc[p].appended)

(* C2: of two checkouts of the same user that overlapped in time and read   *)
(* the same non-empty cart, at most one returns True (the cart's contents   *)
(* are recorded in one order record only).                                  *)
C2_OneCheckoutWins ==
    \A p, q \in Procs :
        (/\ p # q
         /\ pc[p] = "done" /\ pc[q] = "done"
         /\ loc[p].op = "checkout" /\ loc[q].op = "checkout"
         /\ loc[p].uid = loc[q].uid
         /\ Overlapped(p, q)
         /\ loc[p].cart = loc[q].cart /\ DOMAIN loc[p].cart # {})
        => ~(loc[p].ret = "True" /\ loc[q].ret = "True")

(* C3: a checkout of a non-empty cart C that ran alone returns True, leaves *)
(* the cart empty and the stream one record longer: the records that were   *)
(* there are unchanged, and the new one names the user and carries exactly  *)
(* the items of C with their quantities.                                    *)
C3_CheckoutRecordsCart ==
    \A p \in Procs :
        (pc[p] = "done" /\ loc[p].op = "checkout" /\ DOMAIN loc[p].pre_cart # {}) =>
            /\ loc[p].ret = "True"
            /\ get_cart(loc[p].uid) = EmptyDict
            /\ Len(orders) = Len(loc[p].pre_orders) + 1
            /\ SubSeq(orders, 1, Len(loc[p].pre_orders)) = loc[p].pre_orders
            /\ LET rec == orders[Len(orders)]
               IN  /\ DOMAIN rec = {"user_id", "timestamp"}
                                     \cup {"item_" \o k : k \in DOMAIN loc[p].pre_cart}
                   /\ rec["user_id"] = loc[p].uid
                   /\ Snapshot(rec) = Decode(loc[p].pre_cart)

C3_Witness ==
    \E p \in Procs :
        /\ pc[p] = "done" /\ loc[p].op = "checkout" /\ loc[p].ret = "True"
        /\ DOMAIN loc[p].pre_cart = {"A", "B"}
        /\ Decode(loc[p].pre_cart)["A"] = 2
        /\ loc[p].pre_orders # <<>>

(* C4: the step that starts a checkout on an empty cart ends it: the call   *)
(* returns False and the step changes no cart hash, no marker and no order. *)
C4_EmptyCheckoutNoOp ==
    [][\A p \in Procs :
        (/\ pc[p] = "idle" /\ pc'[p] # "idle"
         /\ loc'[p].op = "checkout"
         /\ ~CartNonEmpty(loc'[p].uid))
        => (/\ pc'[p] = "done"
            /\ loc'[p].ret = "False"
            /\ UNCHANGED store)]_vars

C4_Witness ==
    \E p \in Procs :
        /\ pc[p] = "done" /\ loc[p].op = "checkout" /\ loc[p].ret = "False"
        /\ loc[p].pre_cart = EmptyHash
        /\ orders = loc[p].pre_orders

(* C5: after every completed cart operation the marker cart_ttl:<user>      *)
(* exists if and only if the hash cart:<user> is non-empty.                 *)
C5_MarkerIffNonEmpty ==
    \A p \in Procs :
        pc[p] = "done" => (MarkerExists(loc[p].uid) <=> CartNonEmpty(loc[p].uid))

(* C6: every quantity stored in a cart hash is > 0.                         *)
C6_QuantitiesPositive ==
    \A k \in CartKeys : \A f \in DOMAIN cart[k] : int(cart[k][f]) > 0

(* C7: after an add or a remove that ran alone, the cart is the cart before *)
(* the call with the SKU's quantity moved by the signed delta (+qty for an  *)
(* add, -qty for a remove, an absent SKU counting as 0) and the SKU absent  *)
(* when that sum is <= 0; every other SKU is as before.  From the empty     *)
(* cart this makes every quantity the clamped running sum of its deltas.    *)
RunningSum(m, sku, delta) ==
    LET v == (IF sku \in DOMAIN m THEN m[sku] ELSE 0) + delta
    IN  [k \in (IF v <= 0 THEN DOMAIN m \ {sku} ELSE DOMAIN m \cup {sku}) |->
            IF k = sku THEN v ELSE m[k]]

Delta(p) ==
    IF loc[p].op = "remove_item_from_cart" THEN 0 - loc[p].qty ELSE loc[p].qty

C7_RunningSum ==
    \A p \in Procs :
        (/\ pc[p] = "done"
         /\ loc[p].op \in {"add_item_to_cart", "add_to_cart", "remove_item_from_cart"}
         /\ loc[p].ret # "rejected")
        => get_cart(loc[p].uid) = RunningSum(Decode(loc[p].pre_cart), loc[p].sku, Delta(p))

C7_Witness ==
    \E p \in Procs :
        /\ pc[p] = "done" /\ loc[p].op = "add_item_to_cart"
        /\ loc[p].sku = "A" /\ loc[p].qty = 1
        /\ Decode(loc[p].pre_cart) = [k \in {"A", "B"} |-> IF k = "A" THEN 1 ELSE 2]
        /\ get_cart(loc[p].uid) = [k \in {"A", "B"} |-> 2]

(* C8: a remove of n of a SKU present with quantity q, run alone, leaves    *)
(* the SKU absent when n >= q and present with q - n when 0 < n < q; the    *)
(* other SKUs keep their quantities.                                        *)
C8_RemovePresent ==
    \A p \in Procs :
        (/\ pc[p] = "done" /\ loc[p].op = "remove_item_from_cart"
         /\ loc[p].sku \in DOMAIN loc[p].pre_cart)
        => LET before == Decode(loc[p].pre_cart)
               after == get_cart(loc[p].uid)
               q == before[loc[p].sku]
               n == loc[p].qty
           IN  /\ n >= q => loc[p].sku \notin DOMAIN after
               /\ (0 < n /\ n < q) =>
                    (loc[p].sku \in DOMAIN after /\ after[loc[p].sku] = q - n)
               /\ \A k \in DOMAIN before \ {loc[p].sku} :
                    k \in DOMAIN after /\ after[k] = before[k]
               /\ DOMAIN after \subseteq DOMAIN before

C8_Witness ==
    \E p \in Procs :
        /\ pc[p] = "done" /\ loc[p].op = "remove_item_from_cart"
        /\ loc[p].sku = "A" /\ loc[p].qty = 3
        /\ Decode(loc[p].pre_cart) = [k \in {"A", "B"} |-> 2]
        /\ get_cart(loc[p].uid) = [k \in {"B"} |-> 2]

(* C9: the step that starts a remove of a SKU absent from the cart ends it: *)
(* the call reports "not found" (no error) and the step changes no cart     *)
(* hash, no marker and no order.                                            *)
C9_RemoveAbsentNoOp ==
    [][\A p \in Procs :
        (/\ pc[p] = "idle" /\ pc'[p] # "idle"
         /\ loc'[p].op = "remove_item_from_cart"
         /\ loc'[p].sku \notin DOMAIN cart[get_cart_key(loc'[p].uid)])
        => (/\ pc'[p] = "done"
            /\ loc'[p].ret = "not_found"
            /\ UNCHANGED store)]_vars

C9_Witness ==
    \E p \in Procs :
        /\ pc[p] = "done" /\ loc[p].op = "remove_item_from_cart"
        /\ loc[p].ret = "not_found"
        /\ loc[p].sku = "B" /\ DOMAIN loc[p].pre_cart = {"A"}
        /\ cart[get_cart_key(loc[p].uid)] = loc[p].pre_cart

(* C10: after the editor has applied a target mapping M, run alone, the     *)
(* cart read back is exactly the entries of M with quantity > 0, and the    *)
(* diff of M against that cart queues no command: applying M again writes   *)
(* nothing.                                                                 *)
C10_ReplaceRoundTrip ==
    \A p \in Procs :
        (pc[p] = "done" /\ loc[p].op = "editor") =>
            LET after == get_cart(loc[p].uid)
            IN  /\ after = Positive(loc[p].edited)
                /\ editor_hset(after, loc[p].edited) = EmptyDict
                /\ editor_hdel(after, loc[p].edited) = {}

(* The scenario of the specification: "A" deleted by a zero quantity, "B"  *)
(* by omission, "C" added                                                  *)
C10_Witness ==
    \E p \in Procs :
        /\ pc[p] = "done" /\ loc[p].op = "editor"
        /\ Decode(loc[p].pre_cart) = [k \in {"A", "B"} |-> 2]
        /\ loc[p].edited = [k \in {"A", "C"} |-> IF k = "A" THEN 0 ELSE 2]
        /\ get_cart(loc[p].uid) = [k \in {"C"} |-> 2]

(* C11: the queued HSET/HDEL commands of one cart edit take effect as one   *)
(* batch.  While an edit is in its handler, and after a store failure has   *)
(* stopped it, the cart is either the cart before the edit or the cart with *)
(* every queued change applied; a client that read the cart during the edit *)
(* saw one of these two carts.                                              *)
Readers == {"get_cart", "get_cart_contents"}

C11_ReplaceAtomic ==
    \A p \in Procs :
        (loc[p].op = "editor" /\ pc[p] # "idle") =>
            LET before == Decode(loc[p].pre_cart)
                applied == Positive(loc[p].edited)
            IN  /\ get_cart(loc[p].uid) \in {before, applied}
                /\ \A q \in Procs \ {p} :
                      (/\ pc[q] = "done" /\ loc[q].op \in Readers
                       /\ loc[q].uid = loc[p].uid
                       /\ p \in loc[q].overlap)
                      => loc[q].cart \in {before, applied}

C11_Witness ==
    \E p, q \in Procs :
        /\ loc[p].op = "editor" /\ pc[p] = "ttl_hlen"
        /\ Decode(loc[p].pre_cart) = [k \in {"A", "B"} |-> 1]
        /\ loc[p].edited = [k \in {"A", "B"} |-> IF k = "A" THEN 2 ELSE 0]
        /\ pc[q] = "done" /\ loc[q].op = "get_cart" /\ p \in loc[q].overlap
        /\ loc[q].cart = [k \in {"A"} |-> 2]

(* C12: the step that starts an add with a quantity <= 0 or an empty SKU    *)
(* ends the call and changes no cart hash, no marker and no order.          *)
C12_InvalidAddRejected ==
    [][\A p \in Procs :
        (/\ pc[p] = "idle" /\ pc'[p] # "idle"
         /\ loc'[p].op \in {"add_to_cart", "add_item_to_cart"}
         /\ (loc'[p].qty <= 0 \/ loc'[p].sku = ""))
        => (pc'[p] = "done" /\ UNCHANGED store)]_vars

(* C13: the step that completes an accepted add of the app, run alone,      *)
(* leaves the SKU at its quantity before the call (0 if absent) plus qty    *)
(* and every other SKU as before, the stream as before, and the marker      *)
(* present with CART_TTL_SEC seconds left to live.                          *)
C13_AddIncrementsAndRefreshes ==
    [][\A p \in Procs :
        (pc[p] = "ttl_write" /\ pc'[p] = "done" /\ loc[p].op = "add_to_cart") =>
            LET before == Decode(loc[p].pre_cart)
                after == Decode(cart'[get_cart_key(loc[p].uid)])
                marker == cart_ttl'[get_cart_ttl_key(loc[p].uid)]
                sku == loc[p].sku
            IN  /\ DOMAIN after = DOMAIN before \cup {sku}
                /\ after[sku] = (IF sku \in DOMAIN before THEN before[sku] ELSE 0)
                                    + loc[p].qty
                /\ \A k \in DOMAIN before \ {sku} : after[k] = before[k]
                /\ orders' = loc[p].pre_orders
                /\ marker.exists
                /\ marker.expire_at - now' = CART_TTL_SEC]_vars

(* an add of one "A" to the cart {A: 1, B: 2}, after an earlier checkout,   *)
(* on a marker whose time to live had run down                              *)
C13_Witness ==
    \E p \in Procs :
        /\ pc[p] = "done" /\ loc[p].op = "add_to_cart" /\ loc[p].ret = "ok"
        /\ loc[p].sku = "A" /\ loc[p].qty = 1
        /\ Decode(loc[p].pre_cart) = [k \in {"A", "B"} |-> IF k = "A" THEN 1 ELSE 2]
        /\ get_cart(loc[p].uid) = [k \in {"A", "B"} |-> 2]
        /\ loc[p].pre_orders # <<>>
        /\ now = 2 * TickSec
        /\ cart_ttl[get_cart_ttl_key(loc[p].uid)].expire_at = now + CART_TTL_SEC

(* C14: the step of a clear ends the call with the user's cart hash empty   *)
(* and the user's marker absent, whatever they were, and leaves the stream  *)
(* as it was; on a cart already empty with no marker it changes nothing, so *)
(* a second clear leaves the state of the first.                            *)
C14_ClearCartIdempotent ==
    [][\A p \in Procs :
        (pc[p] = "idle" /\ pc'[p] # "idle" /\ loc'[p].op = "clear_cart") =>
            LET k == get_cart_key(loc'[p].uid)
                t == get_cart_ttl_key(loc'[p].uid)
            IN  /\ pc'[p] = "done"
                /\ cart'[k] = EmptyHash
                /\ ~cart_ttl'[t].exists
                /\ orders' = orders
                /\ (cart[k] = EmptyHash /\ ~cart_ttl[t].exists) => UNCHANGED store]_vars

C14_Witness ==
    \E p \in Procs :
        /\ pc[p] = "done" /\ loc[p].op = "clear_cart"
        /\ Decode(loc[p].pre_cart) = [k \in {"A"} |-> 2]
        /\ get_cart(loc[p].uid) = EmptyDict /\ ~MarkerExists(loc[p].uid)
        /\ orders # <<>> /\ orders = loc[p].pre_orders

(* C15: the step of a cart read ends the call, returns the cart hash as a   *)
(* mapping SKU -> integer (the empty mapping when the user has no cart) and *)
(* changes no cart hash, no marker (its expiry time included) and no order. *)
C15_GetCartReadOnly ==
    [][\A p \in Procs :
        (pc[p] = "idle" /\ pc'[p] # "idle" /\ loc'[p].op \in Readers) =>
            LET k == get_cart_key(loc'[p].uid)
            IN  /\ pc'[p] = "done" /\ loc'[p].ret = "ok"
                /\ loc'[p].cart = Decode(cart[k])
                /\ cart[k] = EmptyHash => loc'[p].cart = EmptyDict
                /\ UNCHANGED store]_vars

(* a read of a cart whose marker has 900 of its 1800 seconds left *)
C15_Witness ==
    \E p \in Procs :
        /\ pc[p] = "done" /\ loc[p].op = "get_cart"
        /\ loc[p].cart = [k \in {"A"} |-> 1]
        /\ MarkerExists(loc[p].uid)
        /\ cart_ttl[get_cart_ttl_key(loc[p].uid)].expire_at - now = CART_TTL_SEC - TickSec

(* C17: once the marker of a cart has expired and no call is running, the   *)
(* cart hash is empty.                                                      *)
C17_ExpiryRemovesCart ==
    \A u \in Users :
        ((\A p \in Procs : pc[p] = "idle") /\ ~MarkerExists(u)) => ~CartNonEmpty(u)

(* C18: every step leaves the records of the stream in place, unchanged and *)
(* in order: the stream before the step is a prefix of the stream after it. *)
C18_OrdersAppendOnly ==
    [][/\ Len(orders') >= Len(orders)
       /\ SubSeq(orders', 1, Len(orders)) = orders]_vars

C18_Witness ==
    \E p \in Procs :
        /\ pc[p] = "done" /\ loc[p].op = "checkout" /\ loc[p].ret = "True"
        /\ Len(orders) = 2 /\ Len(loc[p].pre_orders) = 1
        /\ orders[1] = loc[p].pre_orders[1]
        /\ orders[1] # orders[2]

(* C16: a step of a call made for user u leaves the cart hash and the       *)
(* marker of every other user as they were.                                 *)
C16_UsersIndependent ==
    [][\A p \in Procs :
        (pc'[p] # pc[p] /\ pc'[p] # "idle") =>
            \A v \in Users \ {loc'[p].uid} :
                /\ cart'[get_cart_key(v)] = cart[get_cart_key(v)]
                /\ cart_ttl'[get_cart_ttl_key(v)] = cart_ttl[get_cart_ttl_key(v)]]_vars

(* a checkout of u1 has ended while an add for u2 is between its commands   *)
C16_Witness ==
    /\ pc["c1"] = "done" /\ loc["c1"].op = "checkout" /\ loc["c1"].ret = "True"
    /\ loc["c1"].uid = "u1"
    /\ pc["c2"] = "ttl_write" /\ loc["c2"].uid = "u2"
    /\ get_cart("u2") = [k \in {"A"} |-> 2]
    /\ MarkerExists("u2")

(* C19: a call of the marker helper that ran alone changes no cart hash and *)
(* no order, and its last step leaves the marker present, with CART_TTL_SEC *)
(* seconds to live, exactly when the cart hash is non-empty; where the      *)
(* marker is already so (as a first call leaves it) the step changes        *)
(* nothing.                                                                 *)
C19_MarkerHelperIdempotent ==
    [][\A p \in Procs :
        /\ (pc[p] = "ttl_hlen" /\ pc'[p] = "ttl_write") => UNCHANGED store
        /\ (pc[p] = "ttl_write" /\ pc'[p] = "done") =>
            LET k == get_cart_key(loc[p].uid)
                t == get_cart_ttl_key(loc[p].uid)
                AsLeft(m, clock) ==
                    /\ m.exists <=> HLEN(k) > 0
                    /\ m.exists => (m.expire_at - clock = CART_TTL_SEC /\ m.value = "alive")
            IN  /\ cart' = cart /\ orders' = orders
                /\ AsLeft(cart_ttl'[t], now')
                /\ \A o \in TtlKeys \ {t} : cart_ttl'[o] = cart_ttl[o]
                /\ AsLeft(cart_ttl[t], now) => UNCHANGED store]_vars

C19_Witness ==
    \E p \in Procs :
        /\ pc[p] = "done" /\ loc[p].op = "_update_cart_ttl"
        /\ get_cart(loc[p].uid) = [k \in {"A"} |-> 1]
        /\ orders # <<>>
        /\ now = TickSec
        /\ cart_ttl[get_cart_ttl_key(loc[p].uid)].exists
        /\ cart_ttl[get_cart_ttl_key(loc[p].uid)].expire_at = now + CART_TTL_SEC

(* C20: when an accepted add ran while a successful checkout of the same    *)
(* user was between its commands and both have returned, the quantity of    *)
(* the added SKU in the cart plus its quantity in the snapshot of the       *)
(* checkout's order record is its quantity before the checkout plus the     *)
(* added quantity: the add is in the cart or in the record.                 *)
QtyOf(m, sku) == IF sku \in DOMAIN m THEN m[sku] ELSE 0

C20_AddNotLost ==
    \A p, q \in Procs :
        (/\ p # q /\ pc[p] = "done" /\ pc[q] = "done"
         /\ loc[p].op = "checkout" /\ loc[p].ret = "True"
         /\ loc[q].op = "add_to_cart" /\ loc[q].ret = "ok"
         /\ loc[p].uid = loc[q].uid
         /\ p \in loc[q].overlap)
        => LET sku == loc[q].sku
           IN  QtyOf(get_cart(loc[q].uid), sku)
                    + QtyOf(Snapshot(loc[p].order_details), sku)
                 = QtyOf(Decode(loc[p].pre_cart), sku) + loc[q].qty

(* C24: the list a get_numbers step returns holds every member of the       *)
(* sorted set once, as integers in strictly descending order, whatever      *)
(* inserts and clears came before; and an insert_sequential step on a set   *)
(* that already holds 1..NumSeq leaves the set as it was.                   *)
C24_NumbersDescending ==
    [][\A p \in Procs :
        /\ (pc[p] = "idle" /\ pc'[p] = "done" /\ loc'[p].op = "get_numbers") =>
            LET r == loc'[p].numbers
            IN  /\ \A k \in 1..(Len(r) - 1) : r[k] > r[k + 1]
                /\ {r[k] : k \in 1..Len(r)} = {int(m) : m \in DOMAIN numbers}
                /\ Len(r) = Cardinality(DOMAIN numbers)
        /\ (/\ pc[p] = "idle" /\ pc'[p] = "done"
            /\ loc'[p].op = "insert_sequential"
            /\ {str(n) : n \in 1..NumSeq} \subseteq DOMAIN numbers)
           => numbers' = numbers]_vars

C24_Witness ==
    \E p \in Procs :
        /\ pc[p] = "done" /\ loc[p].op = "get_numbers"
        /\ Len(loc[p].numbers) = NumSeq + RandSpan
        /\ loc[p].numbers[1] = NumSeq + RandSpan
        /\ loc[p].numbers[Len(loc[p].numbers)] = 1

(* C25: when part1_add_retrieve_sequential has returned, the list holds     *)
(* exactly NumSeq, NumSeq - 1, ..., 1 in that order, and that is the list   *)
(* it retrieved, whatever the list held before the call.                    *)
ReverseOfInsertion == [k \in 1..NumSeq |-> str(NumSeq + 1 - k)]

C25_SequentialListReversed ==
    \A p \in Procs :
        (pc[p] = "done" /\ loc[p].op = "part1_add_retrieve_sequential") =>
            /\ sequential_numbers_list = ReverseOfInsertion
            /\ loc[p].numbers = ReverseOfInsertion

(* a run over the list a failed run left behind *)
C25_Witness ==
    \E p \in Procs :
        /\ pc[p] = "done" /\ loc[p].op = "part1_add_retrieve_sequential"
        /\ Len(loc[p].pre_list) = NumSeq - 1
        /\ sequential_numbers_list = ReverseOfInsertion

(* C21: when an accepted add wrote between the read and the batch of an     *)
(* edit of the same cart, the cart the batch leaves is the cart of one of   *)
(* the two serial orders: the target mapping's positive entries (add, then  *)
(* edit) or those entries with the add on top (edit, then add).  An add     *)
(* that wrote before the read or after the batch is in such an order as it  *)
(* stands; no later command of either call writes the cart hash.            *)
C21_ReplaceAddLinearizable ==
    [][\A p, q \in Procs :
        (/\ p # q
         /\ pc[p] = "editor_execute" /\ pc'[p] = "ttl_hlen"
         /\ loc[q].op = "add_to_cart" /\ pc[q] \in {"ttl_hlen", "ttl_write", "done"}
         /\ loc[q].uid = loc[p].uid
         /\ p \in loc[q].overlap
         /\ loc[q].pre_cart = loc[p].pre_cart)
        => LET target == Positive(loc[p].edited)
               after == Decode(cart'[get_cart_key(loc[p].uid)])
           IN  after \in {target, RunningSum(target, loc[q].sku, loc[q].qty)}]_vars

(* cart {A: 1, B: 1}, edit to {A: 2, B: 1}, add of one B in between: the    *)
(* cart of "edit, then add"                                                 *)
C21_Witness ==
    \E p, q \in Procs :
        /\ loc[p].op = "editor" /\ pc[p] = "ttl_hlen"
        /\ loc[q].op = "add_to_cart" /\ pc[q] = "done" /\ p \in loc[q].overlap
        /\ loc[q].sku = "B" /\ loc[q].qty = 1
        /\ loc[q].pre_cart = loc[p].pre_cart
        /\ Decode(loc[p].pre_cart) = [k \in {"A", "B"} |-> 1]
        /\ loc[p].edited = [k \in {"A", "B"} |-> IF k = "A" THEN 2 ELSE 1]
        /\ get_cart("u1") = [k \in {"A", "B"} |-> 2]

(* C22: the step that starts an edit whose target mapping has the cart's    *)
(* entries as its positive entries, and no entry <= 0 for a SKU the cart    *)
(* holds, ends the call: no command is queued, and the step changes no cart *)
(* hash, no marker (its expiry time included) and no order.                 *)
C22_UnchangedEditNoWrite ==
    [][\A p \in Procs :
        (/\ pc[p] = "idle" /\ pc'[p] # "idle"
         /\ loc'[p].op = "editor"
         /\ Positive(loc'[p].edited) = get_cart(loc'[p].uid)
         /\ \A sku \in DOMAIN loc'[p].edited :
                loc'[p].edited[sku] <= 0 => sku \notin DOMAIN get_cart(loc'[p].uid))
        => (/\ pc'[p] = "done"
            /\ loc'[p].ret = "unchanged"
            /\ loc'[p].to_set = EmptyDict /\ loc'[p].to_del = {}
            /\ UNCHANGED store)]_vars

(* an unchanged table on a cart whose marker has 900 of its 1800 seconds    *)
(* left                                                                     *)
C22_Witness ==
    \E p \in Procs :
        /\ pc[p] = "done" /\ loc[p].op = "editor" /\ loc[p].ret = "unchanged"
        /\ loc[p].edited = [k \in {"A"} |-> 1]
        /\ get_cart(loc[p].uid) = [k \in {"A"} |-> 1]
        /\ MarkerExists(loc[p].uid)
        /\ cart_ttl[get_cart_ttl_key(loc[p].uid)].expire_at - now = CART_TTL_SEC - TickSec

(* C23: every record of the stream has a user_id field, a timestamp field   *)
(* and at least one item_<sku> field, and every item field holds a          *)
(* quantity > 0.                                                            *)
C23_OrderRecordsWellFormed ==
    \A n \in 1..Len(orders) :
        LET rec == orders[n]
            items == DOMAIN rec \ {"user_id", "timestamp"}
        IN  /\ {"user_id", "timestamp"} \subseteq DOMAIN rec
            /\ items # {}
            /\ \A f \in items : int(rec[f]) > 0

====
